---- MODULE Spec2Model ----
(***************************************************************************)
(* Model of Generator/classification/helpers.py: the few-shot              *)
(* classification dataset loader, the verbalizer/template selection, the   *)
(* PromptedClassificationDataset class and the reward factory.             *)
(*                                                                         *)
(* Encoding of Python values:                                              *)
(*   - an Optional value is None == <<>> or Some(v) == <<v>>;              *)
(*   - a str is a TLA+ string, a list is a sequence;                       *)
(*   - the outcome of a call is a record [status, line, value, events]:    *)
(*     status is "return" or the name of the exception raised, line the    *)
(*     source line that returned or raised, events the external effects    *)
(*     (global lookups, file reads, calls into other objects) in order;    *)
(*   - the two non-ASCII code points of the source are written "U+0120"    *)
(*     and "U+2581".                                                       *)
(***************************************************************************)
EXTENDS Integers, Sequences, FiniteSets, TLC

VARIABLES
    seed_dict,   \* binding of the global name seed_dict in the module namespace
    pc,          \* "idle" | "returned" | "object" | "make_loop"
    call,        \* the call in progress or last completed: [fn, args, file],
                 \* file being what the call finds on disk when it reads
    ret,         \* outcome of the last completed call
    self,        \* the PromptedClassificationDataset instance the methods act on
    data_dict,   \* make_few_shot_classification_dataset: split -> dataset built
    loads,       \* make_few_shot_classification_dataset: the load calls made so far
    locals       \* make_few_shot_classification_dataset: last unpacked load result

vars == <<seed_dict, pc, call, ret, self, data_dict, loads, locals>>

----------------------------------------------------------------------------
(* Bounds of the model *)

MaxRows == 2     \* rows of a TSV file: 0..MaxRows
MaxLen == 2      \* length of a list handed to PromptedClassificationDataset

----------------------------------------------------------------------------
(* Python values *)

None == <<>>
Some(v) == <<v>>

Return(v, line, ev) == [status |-> "return", line |-> line, value |-> v, events |-> ev]
Raise(exc, line, ev) == [status |-> exc, line |-> line, value |-> None, events |-> ev]

NoCall == [fn |-> "none", args |-> None, file |-> None]
NoRet == [status |-> "none", line |-> 0, value |-> None, events |-> <<>>]
NoSelf == [constructed |-> FALSE, source_texts |-> <<>>, class_labels |-> <<>>]

\* `sub in s` for two str values
Contains(sub, s) ==
    \E i \in 1..(Len(s) - Len(sub) + 1) : SubSeq(s, i, i + Len(sub) - 1) = sub

\* os.path.join(a, b) for two components (posix)
path_join(a, b) ==
    IF Len(b) > 0 /\ SubSeq(b, 1, 1) = "/" THEN b
    ELSE IF Len(a) = 0 \/ SubSeq(a, Len(a), Len(a)) = "/" THEN a \o b
    ELSE a \o "/" \o b

----------------------------------------------------------------------------
(* Input domains *)

ValidDatasets == {"CoLA", "yelp", "agnews", "ReCoRD", "QuAC"}
Datasets == ValidDatasets \cup {"sst-2"}
SplitOrder_dev_first == <<"dev", "train", "test">>
\* line 34: the list the loop runs over
SplitOrder == <<"train", "dev", "test">>
ValidSplits == {"train", "dev", "test"}
SplitArgs == ValidSplits \cup {"validation"}
TaskLMs == {"bert-large-cased", "llama-2-7b", "llama-2-13b", "gpt4", "gpt3.5",
            "gpt2", "deberta-base", "distilroberta-base"}
NumShotsArgs == {16, 4}
BasePaths == {"./data", "/d/"}
DatasetSeeds == {None, Some(0), Some(1)}

\* Lists handed to PromptedClassificationDataset directly
SeqsUpTo(S, n) == UNION {[1..k -> S] : k \in 0..n}
TextLists == SeqsUpTo({"good film", "bad film"}, MaxLen)
LabelLists == SeqsUpTo({0, 1}, MaxLen)
Indices == (-(MaxLen + 1))..(MaxLen + 1)

\* DictConfig handed to make_few_shot_classification_dataset
\* (FewShotClassificationDatasetConfig plus task_lm)
DatasetConfigs ==
    [dataset : Datasets, dataset_seed : DatasetSeeds, base_path : BasePaths,
     num_shots : NumShotsArgs, task_lm : TaskLMs]

\* DictConfig handed to make_prompted_classification_reward
\* (PromptedClassificationRewardConfig)
RewardConfigs ==
    [task_lm : {"distilroberta-base", "gpt2"},
     is_mask_lm : {None, Some(TRUE), Some(FALSE)},
     compute_zscore : BOOLEAN,
     incorrect_coeff : {180, 1},
     correct_coeff : {200, 2},
     clean_prompt : {None, Some("Absolutely")},
     target_label : {None, Some(1)}]
RewardNumClasses == {2, 4}
RewardVerbalizers == {<<"U+0120terrible", "U+0120great">>,
                      <<"World", "Sports", "Business", "Tech">>}
RewardTemplates == {None, Some("<mask> {clean_prompt} {sentence}")}

\* The module never binds seed_dict; whether the name is bound when line 59
\* runs depends on the namespace the caller leaves behind.
SeedDictUnbound == [bound |-> FALSE, map |-> <<>>]
SeedDictBindings == {SeedDictUnbound,
                     [bound |-> TRUE, map |-> (0 :> "seed-a")]}

\* What pd.read_csv finds at a path: no file, or a table with a header
FileShapes ==
    {[exists |-> FALSE, cols |-> {}, n |-> 0]} \cup
    [exists : {TRUE}, cols : SUBSET {"text", "sentence", "label"}, n : 0..MaxRows]

\* pd.read_csv(path, sep='\t'): the cell of column c in row i of the file at path
read_csv(path, shape) ==
    [cols |-> shape.cols,
     col |-> [c \in shape.cols |-> [i \in 1..shape.n |-> <<path, c, i>>]]]

----------------------------------------------------------------------------
(* get_dataset_verbalizers *)

G_PREFIX == "U+0120"
SP_PREFIX == "U+2581"

get_dataset_verbalizers_llama7b_only(dataset, task_lm) ==
    IF dataset \in {"CoLA", "yelp", "agnews", "ReCoRD", "QuAC"} THEN
        LET v0 == <<G_PREFIX \o "terrible", G_PREFIX \o "great">>
            v1 == IF task_lm = "bert-large-cased"
                  THEN <<"terrible", "great">> ELSE v0
            v2 == IF task_lm \in {"llama-2-7b"}
                  THEN <<SP_PREFIX \o "terrible", SP_PREFIX \o "great">> ELSE v1
        IN  Return(v2, 93, <<>>)
    ELSE IF dataset = "agnews" THEN
        Return(<<"World", "Sports", "Business", "Tech">>, 93, <<>>)
    ELSE Raise("UnboundLocalError", 93, <<>>)

get_dataset_verbalizers(dataset, task_lm) ==
    IF dataset \in {"CoLA", "yelp", "agnews", "ReCoRD", "QuAC"} THEN
        LET v0 == <<G_PREFIX \o "terrible", G_PREFIX \o "great">>
            v1 == IF task_lm = "bert-large-cased"
                  THEN <<"terrible", "great">> ELSE v0
            v2 == IF task_lm \in {"llama-2-7b", "llama-2-13b"}
                  THEN <<SP_PREFIX \o "terrible", SP_PREFIX \o "great">> ELSE v1
            v3 == IF task_lm \in {"gpt4", "gpt3.5"}
                  THEN <<G_PREFIX \o "terrible", G_PREFIX \o "great">> ELSE v2
        IN  Return(v3, 93, <<>>)
    ELSE IF dataset = "agnews" THEN
        Return(<<"World", "Sports", "Business", "Tech">>, 93, <<>>)
    ELSE Raise("UnboundLocalError", 93, <<>>)

----------------------------------------------------------------------------
(* load_few_shot_classification_dataset *)

\* lines 56-58: the line of the first assertion that fails, 0 when all hold
check_args_no_num_shots(dataset, split, num_shots) ==
    IF dataset \notin {"CoLA", "yelp", "agnews", "ReCoRD", "QuAC"} THEN 56
    ELSE IF split \notin {"train", "dev", "test"} THEN 57
    ELSE 0

check_args(dataset, split, num_shots) ==
    IF dataset \notin {"CoLA", "yelp", "agnews", "ReCoRD", "QuAC"} THEN 56
    ELSE IF split \notin {"train", "dev", "test"} THEN 57
    ELSE IF num_shots \notin {16} THEN 58
    ELSE 0

\* lines 60-61
build_filepath(dataset, seed_path, split, base_path, num_shots) ==
    LET filepath == ToString(num_shots) \o "-shot/" \o dataset \o "/"
                        \o seed_path \o "/" \o split \o ".tsv"
    IN  path_join(base_path, filepath)

\* lines 63-66: df.text when the frame has a text column, else df.sentence
select_source_texts_sentence_first(df) ==
    IF "sentence" \in df.cols THEN Return(df.col["sentence"], 66, <<>>)
    ELSE IF "text" \in df.cols THEN Return(df.col["text"], 64, <<>>)
    ELSE Raise("AttributeError", 66, <<>>)

select_source_texts(df) ==
    IF "text" \in df.cols THEN Return(df.col["text"], 64, <<>>)
    ELSE IF "sentence" \in df.cols THEN Return(df.col["sentence"], 66, <<>>)
    ELSE Raise("AttributeError", 66, <<>>)

\* line 67
select_class_labels(df) ==
    IF "label" \in df.cols THEN Return(df.col["label"], 67, <<>>)
    ELSE Raise("AttributeError", 67, <<>>)

\* lines 72-76
select_template_gpt_by_name(dataset, task_lm) ==
    IF dataset = "agnews" /\ task_lm = "deberta-base"
    THEN Some("[MASK] {clean_prompt} {sentence}")
    ELSE IF dataset = "agnews" /\ task_lm \notin {"gpt4", "gpt3.5"}
    THEN Some("<mask> {clean_prompt} {sentence}")
    ELSE None

select_template(dataset, task_lm) ==
    IF dataset = "agnews" /\ task_lm = "deberta-base"
    THEN Some("[MASK] {clean_prompt} {sentence}")
    ELSE IF dataset = "agnews" /\ ~Contains("gpt", task_lm)
    THEN Some("<mask> {clean_prompt} {sentence}")
    ELSE None

SeedLookup(dataset_seed) == [op |-> "seed_dict", arg |-> dataset_seed]
ReadCsv(path) == [op |-> "read_csv", arg |-> path]

\* globals: the binding of seed_dict when the call runs; shape: what
\* pd.read_csv finds at the path it is given
load_few_shot_classification_dataset(dataset, dataset_seed, split, base_path, num_shots, task_lm, globals, shape) ==
    LET failed == check_args(dataset, split, num_shots) IN
    IF failed # 0 THEN Raise("AssertionError", failed, <<>>)
    ELSE IF ~globals.bound
    THEN Raise("NameError", 59, <<SeedLookup(dataset_seed)>>)
    ELSE IF dataset_seed = None \/ dataset_seed[1] \notin DOMAIN globals.map
    THEN Raise("KeyError", 59, <<SeedLookup(dataset_seed)>>)
    ELSE
    LET seed_path == globals.map[dataset_seed[1]]
        full_filepath == build_filepath(dataset, seed_path, split, base_path,
                                        num_shots)
        ev == <<SeedLookup(dataset_seed), ReadCsv(full_filepath)>>
    IN
    IF ~shape.exists THEN Raise("FileNotFoundError", 62, ev)
    ELSE
    LET df == read_csv(full_filepath, shape)
        source_texts == select_source_texts(df)
        class_labels == select_class_labels(df)
        verbalizers == get_dataset_verbalizers(dataset, task_lm)
    IN
    IF source_texts.status # "return"
    THEN Raise(source_texts.status, source_texts.line, ev)
    ELSE IF class_labels.status # "return"
    THEN Raise(class_labels.status, class_labels.line, ev)
    ELSE IF verbalizers.status # "return"
    THEN Raise(verbalizers.status, verbalizers.line, ev)
    ELSE Return(<<source_texts.value, class_labels.value,
                  Len(verbalizers.value), verbalizers.value,
                  select_template(dataset, task_lm)>>, 78, ev)

----------------------------------------------------------------------------
(* PromptedClassificationDataset *)

\* l[idx] of a Python list: a negative index counts from the end
list_getitem(l, idx) ==
    IF 0 <= idx /\ idx < Len(l) THEN Return(l[idx + 1], 0, <<>>)
    ELSE IF -Len(l) <= idx /\ idx < 0 THEN Return(l[Len(l) + idx + 1], 0, <<>>)
    ELSE Raise("IndexError", 0, <<>>)

Dataset_init_unchecked(source_texts, class_labels) ==
    Return([constructed |-> TRUE, source_texts |-> source_texts,
            class_labels |-> class_labels], 20, <<>>)

\* __init__, lines 13-20: the instance, or the assertion failure
Dataset_init(source_texts, class_labels) ==
    IF Len(source_texts) # Len(class_labels)
    THEN Raise("AssertionError", 18, <<>>)
    ELSE Return([constructed |-> TRUE, source_texts |-> source_texts,
                 class_labels |-> class_labels], 20, <<>>)

\* __len__, lines 22-23
Dataset_len(obj) == Return(Len(obj.source_texts), 23, <<>>)

\* __getitem__, lines 25-28
Dataset_getitem(obj, idx) ==
    LET text == list_getitem(obj.source_texts, idx)
        label == list_getitem(obj.class_labels, idx)
    IN  IF text.status # "return" THEN Raise(text.status, 26, <<>>)
        ELSE IF label.status # "return" THEN Raise(label.status, 27, <<>>)
        ELSE Return([source_texts |-> text.value, class_labels |-> label.value],
                    28, <<>>)

----------------------------------------------------------------------------
(* make_prompted_classification_reward *)

make_prompted_classification_reward_coeffs_swapped(num_classes, verbalizers, template, config) ==
    LET args == <<config.task_lm, config.is_mask_lm, config.compute_zscore,
                  config.correct_coeff, config.incorrect_coeff,
                  num_classes, verbalizers, template>>
    IN  Return([class |-> "PromptedClassificationReward", args |-> args], 109,
               <<[op |-> "PromptedClassificationReward", arg |-> args]>>)

\* lines 104-113: the one constructor call, with its positional arguments
make_prompted_classification_reward(num_classes, verbalizers, template, config) ==
    LET args == <<config.task_lm, config.is_mask_lm, config.compute_zscore,
                  config.incorrect_coeff, config.correct_coeff,
                  num_classes, verbalizers, template>>
    IN  Return([class |-> "PromptedClassificationReward", args |-> args], 109,
               <<[op |-> "PromptedClassificationReward", arg |-> args]>>)

----------------------------------------------------------------------------
(* Actions *)

Init ==
    /\ seed_dict \in SeedDictBindings
    /\ pc = "idle"
    /\ call = NoCall
    /\ ret = NoRet
    /\ self = NoSelf
    /\ data_dict = <<>>
    /\ loads = <<>>
    /\ locals = None

CallGetDatasetVerbalizers ==
    /\ pc = "idle"
    /\ \E dataset \in Datasets, task_lm \in TaskLMs :
        /\ call' = [fn |-> "get_dataset_verbalizers",
                    args |-> [dataset |-> dataset, task_lm |-> task_lm],
                    file |-> None]
        /\ ret' = get_dataset_verbalizers(dataset, task_lm)
    /\ pc' = "returned"
    /\ UNCHANGED <<seed_dict, self, data_dict, loads, locals>>

CallLoad ==
    /\ pc = "idle"
    /\ \E dataset \in Datasets, dataset_seed \in DatasetSeeds,
          split \in SplitArgs, base_path \in BasePaths,
          num_shots \in NumShotsArgs, task_lm \in TaskLMs,
          shape \in FileShapes :
        /\ call' = [fn |-> "load_few_shot_classification_dataset",
                    args |-> [dataset |-> dataset, dataset_seed |-> dataset_seed,
                              split |-> split, base_path |-> base_path,
                              num_shots |-> num_shots, task_lm |-> task_lm],
                    file |-> shape]
        /\ ret' = load_few_shot_classification_dataset(
                      dataset, dataset_seed, split, base_path, num_shots,
                      task_lm, seed_dict, shape)
    /\ pc' = "returned"
    /\ UNCHANGED <<seed_dict, self, data_dict, loads, locals>>

CallDatasetInit ==
    /\ pc = "idle"
    /\ \E source_texts \in TextLists, class_labels \in LabelLists :
        LET out == Dataset_init(source_texts, class_labels) IN
        /\ call' = [fn |-> "PromptedClassificationDataset.__init__",
                    args |-> [source_texts |-> source_texts,
                              class_labels |-> class_labels],
                    file |-> None]
        /\ ret' = out
        /\ IF out.status = "return"
           THEN pc' = "object" /\ self' = out.value
           ELSE pc' = "returned" /\ self' = self
    /\ UNCHANGED <<seed_dict, data_dict, loads, locals>>

CallDatasetLen ==
    /\ pc = "object"
    /\ call' = [fn |-> "PromptedClassificationDataset.__len__",
                args |-> None, file |-> None]
    /\ ret' = Dataset_len(self)
    /\ UNCHANGED <<seed_dict, pc, self, data_dict, loads, locals>>

CallDatasetGetItem ==
    /\ pc = "object"
    /\ \E idx \in Indices :
        /\ call' = [fn |-> "PromptedClassificationDataset.__getitem__",
                    args |-> [idx |-> idx], file |-> None]
        /\ ret' = Dataset_getitem(self, idx)
    /\ UNCHANGED <<seed_dict, pc, self, data_dict, loads, locals>>

CallMakeReward ==
    /\ pc = "idle"
    /\ \E num_classes \in RewardNumClasses, verbalizers \in RewardVerbalizers,
          template \in RewardTemplates, config \in RewardConfigs :
        /\ call' = [fn |-> "make_prompted_classification_reward",
                    args |-> [num_classes |-> num_classes,
                              verbalizers |-> verbalizers,
                              template |-> template, config |-> config],
                    file |-> None]
        /\ ret' = make_prompted_classification_reward(num_classes, verbalizers,
                                                      template, config)
    /\ pc' = "returned"
    /\ UNCHANGED <<seed_dict, self, data_dict, loads, locals>>

\* make_few_shot_classification_dataset, line 33
CallMake ==
    /\ pc = "idle"
    /\ \E config \in DatasetConfigs :
        call' = [fn |-> "make_few_shot_classification_dataset",
                 args |-> config, file |-> None]
    /\ pc' = "make_loop"
    /\ data_dict' = <<>>
    /\ loads' = <<>>
    /\ UNCHANGED <<seed_dict, ret, self, locals>>

\* one iteration of the loop of lines 34-42
MakeLoop ==
    /\ pc = "make_loop"
    /\ Len(loads) < Len(SplitOrder)
    /\ \E shape \in FileShapes :
        LET config == call.args
            split == SplitOrder[Len(loads) + 1]
            out == load_few_shot_classification_dataset(
                       config.dataset, config.dataset_seed, split,
                       config.base_path, config.num_shots, config.task_lm,
                       seed_dict, shape)
            fsc_dataset == Dataset_init(out.value[1], out.value[2])
        IN
        /\ loads' = Append(loads,
                           [args |-> <<config.dataset, config.dataset_seed, split,
                                       config.base_path, config.num_shots,
                                       config.task_lm>>,
                            file |-> shape, out |-> out])
        /\ IF out.status # "return"
           THEN /\ ret' = Raise(out.status, out.line, <<>>)
                /\ pc' = "returned"
                /\ UNCHANGED <<data_dict, locals>>
           ELSE IF fsc_dataset.status # "return"
           THEN /\ ret' = Raise(fsc_dataset.status, fsc_dataset.line, <<>>)
                /\ pc' = "returned"
                /\ UNCHANGED <<data_dict, locals>>
           ELSE /\ data_dict' = (split :> fsc_dataset.value) @@ data_dict
                /\ locals' = Some(<<out.value[3], out.value[4], out.value[5]>>)
                /\ UNCHANGED <<ret, pc>>
    /\ UNCHANGED <<seed_dict, call, self>>

\* lines 44-45
MakeReturn ==
    /\ pc = "make_loop"
    /\ Len(loads) = Len(SplitOrder)
    /\ ret' = Return(<<data_dict["train"], data_dict["dev"], data_dict["test"],
                       locals[1][1], locals[1][2], locals[1][3]>>, 44, <<>>)
    /\ pc' = "returned"
    /\ UNCHANGED <<seed_dict, call, self, data_dict, loads, locals>>

Next ==
    \/ CallGetDatasetVerbalizers
    \/ CallLoad
    \/ CallDatasetInit
    \/ CallDatasetLen
    \/ CallDatasetGetItem
    \/ CallMakeReward
    \/ CallMake
    \/ MakeLoop
    \/ MakeReturn

Spec == Init /\ [][Next]_vars

----------------------------------------------------------------------------
(* C1: for each of the five datasets and every task_lm,                    *)
(* get_dataset_verbalizers returns exactly the two tokens terrible, great  *)
(* (in this order) with a prefix that task_lm alone decides: none for      *)
(* bert-large-cased, U+2581 for llama-2-7b and llama-2-13b, U+0120 for     *)
(* every other task_lm.                                                    *)

C1_Prefix(task_lm) ==
    IF task_lm = "bert-large-cased" THEN ""
    ELSE IF task_lm \in {"llama-2-7b", "llama-2-13b"} THEN "U+2581"
    ELSE "U+0120"

C1_VerbalizersByTaskLM ==
    (pc = "returned" /\ call.fn = "get_dataset_verbalizers"
        /\ call.args.dataset \in {"CoLA", "yelp", "agnews", "ReCoRD", "QuAC"})
    => /\ ret.status = "return"
       /\ Len(ret.value) = 2
       /\ ret.value = <<C1_Prefix(call.args.task_lm) \o "terrible",
                        C1_Prefix(call.args.task_lm) \o "great">>

C1_Witness ==
    /\ pc = "returned" /\ call.fn = "get_dataset_verbalizers"
    /\ call.args.dataset = "QuAC" /\ call.args.task_lm = "llama-2-13b"
    /\ ret.status = "return"
    /\ ret.value = <<"U+2581terrible", "U+2581great">>

----------------------------------------------------------------------------
(* Shorthands for the claims *)

LoadReturned ==
    pc = "returned" /\ call.fn = "load_few_shot_classification_dataset"

LoadAccepted ==
    /\ LoadReturned
    /\ call.args.dataset \in {"CoLA", "yelp", "agnews", "ReCoRD", "QuAC"}
    /\ call.args.split \in {"train", "dev", "test"}
    /\ call.args.num_shots = 16

FileReads(events) == SelectSeq(events, LAMBDA e : e.op = "read_csv")
SeedLookups(events) == SelectSeq(events, LAMBDA e : e.op = "seed_dict")

----------------------------------------------------------------------------
(* C2: the template load_few_shot_classification_dataset returns depends   *)
(* on (dataset, task_lm) only: None for every dataset but agnews; for      *)
(* agnews "[MASK] {clean_prompt} {sentence}" with deberta-base,            *)
(* "<mask> {clean_prompt} {sentence}" with any other task_lm that does not *)
(* contain "gpt", and None when task_lm contains "gpt".                    *)

C2_Template(dataset, task_lm) ==
    IF dataset # "agnews" THEN None
    ELSE IF task_lm = "deberta-base" THEN Some("[MASK] {clean_prompt} {sentence}")
    ELSE IF Contains("gpt", task_lm) THEN None
    ELSE Some("<mask> {clean_prompt} {sentence}")

C2_TemplateByDatasetAndTaskLM ==
    (LoadReturned /\ ret.status = "return")
    => ret.value[5] = C2_Template(call.args.dataset, call.args.task_lm)

C2_Witness ==
    /\ LoadReturned /\ ret.status = "return"
    /\ call.args.dataset = "agnews" /\ call.args.task_lm = "gpt2"
    /\ ret.value[5] = None

----------------------------------------------------------------------------
(* C3: a load whose dataset is not one of the five, or whose split is not  *)
(* train/dev/test, or whose num_shots is not 16, fails with an assertion   *)
(* error before the seed lookup and before any file is read, and returns   *)
(* no tuple.                                                               *)

C3_BadArgumentsRejected ==
    (LoadReturned /\ ~LoadAccepted)
    => /\ ret.status = "AssertionError"
       /\ ret.line \in {56, 57, 58}
       /\ SeedLookups(ret.events) = <<>>
       /\ FileReads(ret.events) = <<>>
       /\ ret.value = None

C3_Witness ==
    /\ LoadReturned
    /\ call.args.dataset = "CoLA" /\ call.args.split = "dev"
    /\ call.args.num_shots = 4
    /\ seed_dict.bound /\ call.args.dataset_seed = Some(0) /\ call.file.exists
    /\ ret.status = "AssertionError" /\ ret.events = <<>>

----------------------------------------------------------------------------
(* C4: every accepted load reads exactly one file, at                      *)
(* base_path joined with 16-shot/<dataset>/<seed_path>/<split>.tsv where   *)
(* seed_path is seed_dict[dataset_seed]; task_lm plays no part.            *)

C4_AcceptedLoadReadsOneFile ==
    LoadAccepted
    => /\ Len(FileReads(ret.events)) = 1
       /\ seed_dict.bound
       /\ call.args.dataset_seed # None
       /\ call.args.dataset_seed[1] \in DOMAIN seed_dict.map
       /\ FileReads(ret.events)[1].arg =
              path_join(call.args.base_path,
                        "16-shot/" \o call.args.dataset \o "/"
                            \o seed_dict.map[call.args.dataset_seed[1]] \o "/"
                            \o call.args.split \o ".tsv")

----------------------------------------------------------------------------
(* C5: make_few_shot_classification_dataset loads the splits train, dev,   *)
(* test in this order, each with the dataset, dataset_seed, base_path,     *)
(* num_shots and task_lm of config; the tuple it returns has six           *)
(* components, the first three being the datasets built from the train,    *)
(* dev and test loads; when a load fails no tuple is returned.             *)

C5_MakeLoadsTrainDevTest ==
    call.fn = "make_few_shot_classification_dataset"
    => /\ Len(loads) <= 3
       /\ \A i \in 1..Len(loads) :
            loads[i].args = <<call.args.dataset, call.args.dataset_seed,
                              <<"train", "dev", "test">>[i],
                              call.args.base_path, call.args.num_shots,
                              call.args.task_lm>>
       /\ (pc = "returned" /\ ret.status = "return")
          => /\ Len(loads) = 3
             /\ Len(ret.value) = 6
             /\ \A i \in 1..3 :
                  /\ loads[i].out.status = "return"
                  /\ ret.value[i].source_texts = loads[i].out.value[1]
                  /\ ret.value[i].class_labels = loads[i].out.value[2]
       /\ (\E i \in 1..Len(loads) : loads[i].out.status # "return")
          => (pc = "returned" /\ ret.status # "return")

C5_Witness ==
    /\ call.fn = "make_few_shot_classification_dataset"
    /\ pc = "returned" /\ ret.status = "return"
    /\ Len(ret.value[1].source_texts) = 1
    /\ Len(ret.value[2].source_texts) = 2
    /\ Len(ret.value[3].source_texts) = 0
    /\ ret.value[1].source_texts[1][1] = "./data/16-shot/yelp/seed-a/train.tsv"
    /\ ret.value[2].source_texts[1][1] = "./data/16-shot/yelp/seed-a/dev.tsv"

----------------------------------------------------------------------------
(* C6: make_prompted_classification_reward calls the reward constructor    *)
(* once with eight arguments: task_lm, is_mask_lm, compute_zscore,         *)
(* incorrect_coeff, correct_coeff of config, then its own num_classes,     *)
(* verbalizers and template unchanged; clean_prompt and target_label of    *)
(* config take no position.                                                *)

C6_RewardArguments ==
    (pc = "returned" /\ call.fn = "make_prompted_classification_reward")
    => /\ ret.status = "return"
       /\ Len(ret.events) = 1
       /\ ret.events[1].op = "PromptedClassificationReward"
       /\ LET a == ret.events[1].arg
              config == call.args.config
          IN  /\ Len(a) = 8
              /\ a[1] = config.task_lm
              /\ a[2] = config.is_mask_lm
              /\ a[3] = config.compute_zscore
              /\ a[4] = config.incorrect_coeff
              /\ a[5] = config.correct_coeff
              /\ a[6] = call.args.num_classes
              /\ a[7] = call.args.verbalizers
              /\ a[8] = call.args.template

C6_Witness ==
    /\ pc = "returned" /\ call.fn = "make_prompted_classification_reward"
    /\ call.args.config.clean_prompt = Some("Absolutely")
    /\ call.args.config.target_label = Some(1)
    /\ ret.events[1].arg = <<"gpt2", Some(FALSE), TRUE, 180, 200, 4,
                             <<"World", "Sports", "Business", "Tech">>, None>>

----------------------------------------------------------------------------
(* C7: for agnews get_dataset_verbalizers returns the four verbalizers     *)
(* World, Sports, Business, Tech, and the num_classes of a load of agnews  *)
(* is 4.                                                                   *)

C7_AgnewsFourClasses ==
    /\ (pc = "returned" /\ call.fn = "get_dataset_verbalizers"
            /\ call.args.dataset = "agnews")
       => /\ ret.status = "return"
          /\ ret.value = <<"World", "Sports", "Business", "Tech">>
    /\ (LoadReturned /\ ret.status = "return" /\ call.args.dataset = "agnews")
       => /\ ret.value[3] = 4
          /\ ret.value[4] = <<"World", "Sports", "Business", "Tech">>

----------------------------------------------------------------------------
(* C8: constructing a PromptedClassificationDataset from lists of          *)
(* different lengths fails with an assertion error; an instance holds the  *)
(* two lists it was given, len() is their common length, indexing with     *)
(* 0 <= idx < len() returns a record with exactly the keys source_texts    *)
(* and class_labels holding the idx-th text and label, and neither len()   *)
(* nor indexing changes the stored lists.                                  *)

C8_State ==
    /\ (call.fn = "PromptedClassificationDataset.__init__"
            /\ Len(call.args.source_texts) # Len(call.args.class_labels))
       => (pc = "returned" /\ ret.status = "AssertionError"
             /\ ~self.constructed)
    /\ (call.fn = "PromptedClassificationDataset.__init__"
            /\ Len(call.args.source_texts) = Len(call.args.class_labels))
       => /\ pc = "object" /\ self.constructed
          /\ self.source_texts = call.args.source_texts
          /\ self.class_labels = call.args.class_labels
    /\ self.constructed => Len(self.source_texts) = Len(self.class_labels)
    /\ call.fn = "PromptedClassificationDataset.__len__"
       => /\ ret.status = "return"
          /\ ret.value = Len(self.source_texts)
          /\ ret.value = Len(self.class_labels)
    /\ (call.fn = "PromptedClassificationDataset.__getitem__"
            /\ 0 <= call.args.idx /\ call.args.idx < Len(self.source_texts))
       => /\ ret.status = "return"
          /\ DOMAIN ret.value = {"source_texts", "class_labels"}
          /\ ret.value.source_texts = self.source_texts[call.args.idx + 1]
          /\ ret.value.class_labels = self.class_labels[call.args.idx + 1]

C8_Frame ==
    call'.fn \in {"PromptedClassificationDataset.__len__",
                  "PromptedClassificationDataset.__getitem__"}
    => self' = self

C8_DatasetHoldsItsLists == [](C8_State) /\ [][C8_Frame]_vars

C8_Witness ==
    /\ pc = "object"
    /\ call.fn = "PromptedClassificationDataset.__getitem__"
    /\ call.args.idx = 1
    /\ self.source_texts = <<"good film", "bad film">>
    /\ self.class_labels = <<1, 0>>
    /\ ret.status = "return"
    /\ ret.value = [source_texts |-> "bad film", class_labels |-> 0]

----------------------------------------------------------------------------
(* C9: a load that returns gives as source_texts the text column of the    *)
(* file when it has one (also beside a sentence column) and the sentence   *)
(* column otherwise, as class_labels the label column, both with one entry *)
(* per row in file order; the two lists have equal length, so the length   *)
(* assertion of PromptedClassificationDataset never fails inside           *)
(* make_few_shot_classification_dataset; a file with neither a text nor a  *)
(* sentence column, or without a label column, makes the load fail.        *)

C9_Column(path, c, n) == [i \in 1..n |-> <<path, c, i>>]

C9_ColumnsOfTheFile ==
    /\ (LoadReturned /\ ret.status = "return")
       => LET path == FileReads(ret.events)[1].arg
              file == call.file
          IN  /\ ret.value[1] =
                    IF "text" \in file.cols
                    THEN C9_Column(path, "text", file.n)
                    ELSE C9_Column(path, "sentence", file.n)
              /\ ret.value[2] = C9_Column(path, "label", file.n)
              /\ Len(ret.value[1]) = file.n
              /\ Len(ret.value[2]) = file.n
    /\ (LoadReturned
            /\ (   {"text", "sentence"} \cap call.file.cols = {}
                \/ "label" \notin call.file.cols))
       => ret.status # "return"
    /\ call.fn = "make_few_shot_classification_dataset"
       => /\ ~(ret.status = "AssertionError" /\ ret.line = 18)
          /\ \A split \in DOMAIN data_dict :
                Len(data_dict[split].source_texts)
                    = Len(data_dict[split].class_labels)

C9_Witness ==
    /\ LoadReturned /\ ret.status = "return"
    /\ call.file.cols = {"text", "sentence", "label"}
    /\ call.file.n = 2
    /\ ret.value[1][2] = <<"/d/16-shot/QuAC/seed-a/test.tsv", "text", 2>>
    /\ ret.value[2][1] = <<"/d/16-shot/QuAC/seed-a/test.tsv", "label", 1>>

====
